---- MODULE Spec2Model ----
(***************************************************************************)
(* The OCR orchestration pipeline of markitdown:                           *)
(* AdvancedOptimizedPdfOcrConverter.convert, its page loop, the fallback   *)
(* chain over the ranked vision models, parallel segment processing, the   *)
(* result cache and the ModelPerformanceTracker.                           *)
(*                                                                         *)
(* Texts are sequences of one-character tokens; "LF" and "CR" stand for    *)
(* the line feed and the carriage return.  An Optional[str] is a sequence  *)
(* of length 0 (None) or 1 (the string).                                   *)
(***************************************************************************)
EXTENDS Integers, Sequences, FiniteSets, TLC

(* ---------------------------------------------------------------- bounds *)
NumPages == 2          \* pages of an image-based document
NumModels == 2         \* how many of the fallback models are configured
MaxCols == 2           \* widest page, in segment columns

(* ------------------------------------------------------ program constants *)
MinOcrLen == 50        \* len(traditional_text.strip()) > 50
TextThreshold == 100   \* len(text_content.strip()) > 100
DefaultSegmentSize == 800
DefaultMaxWorkers == 4
SamplePages == 3       \* range(min(3, len(doc)))

fallback_vision_models ==
    <<"llama3.2-vision:latest", "minicpm-v:latest", "llava:latest",
      "llava:7b", "llava:13b">>

\* the configured list, cut to the bound
Models == SubSeq(fallback_vision_models, 1, NumModels)
ModelSet == {Models[i] : i \in 1..Len(Models)}

(* ------------------------------------------------------------------ text *)
Rep(c, n) == [i \in 1..n |-> c]

IsSpace(c) == c \in {" ", "LF", "CR"}

RECURSIVE LStrip(_)
LStrip(s) == IF s = <<>> THEN <<>>
             ELSE IF IsSpace(Head(s)) THEN LStrip(Tail(s)) ELSE s

RECURSIVE RStrip(_)
RStrip(s) == IF s = <<>> THEN <<>>
             ELSE IF IsSpace(s[Len(s)]) THEN RStrip(SubSeq(s, 1, Len(s) - 1))
             ELSE s

\* str.strip()
Strip(s) == RStrip(LStrip(s))

\* "".join(parts)
RECURSIVE Concat(_)
Concat(parts) == IF parts = <<>> THEN <<>> ELSE Head(parts) \o Concat(Tail(parts))

\* sep.join(parts)
RECURSIVE Join(_, _)
Join(sep, parts) ==
    IF parts = <<>> THEN <<>>
    ELSE IF Len(parts) = 1 THEN parts[1]
    ELSE parts[1] \o sep \o Join(sep, Tail(parts))

RECURSIVE Gcd(_, _)
Gcd(a, b) == IF b = 0 THEN a ELSE Gcd(b, a % b)

(* ----------------------------------------------------------- result cache *)
os_linesep == <<"LF">>      \* the converter runs in a Linux container

\* open(cache_file, 'w', encoding='utf-8').write(result): text mode turns
\* every "\n" into os.linesep
RECURSIVE WriteText(_)
WriteText(t) ==
    IF t = <<>> THEN <<>>
    ELSE (IF Head(t) = "LF" THEN os_linesep ELSE <<Head(t)>>) \o WriteText(Tail(t))

\* open(cache_file, 'r', encoding='utf-8').read(): universal newlines turn
\* "\r\n" and a lone "\r" into "\n"
RECURSIVE ReadText(_)
ReadText(b) ==
    IF b = <<>> THEN <<>>
    ELSE IF Head(b) = "CR"
         THEN IF Len(b) >= 2 /\ b[2] = "LF"
              THEN <<"LF">> \o ReadText(Tail(Tail(b)))
              ELSE <<"LF">> \o ReadText(Tail(b))
         ELSE <<Head(b)>> \o ReadText(Tail(b))

\* hashlib.md5(image_data).hexdigest(): one key per image content
_get_cache_key(image) == <<"md5", image.id>>

\* mutant: the cache is never read
_get_cached_result_Miss(enabled, files, cache_key) == <<>>

\* files is the cache directory: cache key -> file content
_get_cached_result(enabled, files, cache_key) ==
    IF ~enabled THEN <<>>
    ELSE IF cache_key \in DOMAIN files THEN <<ReadText(files[cache_key])>>
    ELSE <<>>

\* mutant: nothing is written
_save_cached_result_Nothing(enabled, files, cache_key, result) == files

\* open(cache_file, 'w').write(result): the file is created or overwritten
_save_cached_result(enabled, files, cache_key, result) ==
    IF ~enabled THEN files
    ELSE [k \in DOMAIN files \cup {cache_key} |->
            IF k = cache_key THEN WriteText(result) ELSE files[k]]

(* ------------------------------------------------ ModelPerformanceTracker *)
\* avg_response_time is kept as the fraction avg_num / avg_den
NewRecord == [success_count |-> 0, failure_count |-> 0, avg_num |-> 0, avg_den |-> 1]

Reduce(n, d) == LET g == Gcd(n, d) IN IF g = 0 THEN <<0, 1>> ELSE <<n \div g, d \div g>>

\* record_success after the count was loaded as `loaded`: store the count,
\* then update the average over success_count + failure_count
StoreSuccess(data, loaded, response_time) ==
    LET sc == loaded + 1
        total_attempts == sc + data.failure_count
        avg == Reduce(data.avg_num * (total_attempts - 1) + response_time * data.avg_den,
                      data.avg_den * total_attempts)
    IN [data EXCEPT !.success_count = sc, !.avg_num = avg[1], !.avg_den = avg[2]]

\* record_failure after the count was loaded as `loaded`
StoreFailure(data, loaded) == [data EXCEPT !.failure_count = loaded + 1]

\* score_model, as the fraction <<numerator, denominator>>
score_model(pd, model) ==
    LET data == pd[model]
        total_attempts == data.success_count + data.failure_count
        \* avg_time = avg if avg > 0 else 60.0, then max(avg_time, 1.0)
        t == IF data.avg_num = 0 THEN <<60, 1>>
             ELSE IF data.avg_num < data.avg_den THEN <<1, 1>>
             ELSE <<data.avg_num, data.avg_den>>
    IN IF total_attempts = 0 THEN <<0, 1>>
       ELSE <<data.success_count * 60 * t[2], total_attempts * t[1]>>

ScoreGreater(a, b) == a[1] * b[2] > b[1] * a[2]

\* sorted(models, key=score_model, reverse=True): stable, descending.
\* InsertDesc puts m, which precedes the models of `sorted` in the list,
\* before the first of them that does not score higher.
\* mutant: m is put behind the models that score the same
RECURSIVE InsertDesc_BehindTies(_, _, _)
InsertDesc_BehindTies(pd, m, sorted) ==
    IF sorted = <<>> THEN <<m>>
    ELSE IF ScoreGreater(score_model(pd, m), score_model(pd, Head(sorted)))
         THEN <<m>> \o sorted
         ELSE <<Head(sorted)>> \o InsertDesc_BehindTies(pd, m, Tail(sorted))

RECURSIVE InsertDesc(_, _, _)
InsertDesc(pd, m, sorted) ==
    IF sorted = <<>> THEN <<m>>
    ELSE IF ~ScoreGreater(score_model(pd, Head(sorted)), score_model(pd, m))
         THEN <<m>> \o sorted
         ELSE <<Head(sorted)>> \o InsertDesc(pd, m, Tail(sorted))

RECURSIVE get_model_rankings(_, _)
get_model_rankings(pd, models) ==
    IF models = <<>> THEN <<>>
    ELSE InsertDesc(pd, Head(models), get_model_rankings(pd, Tail(models)))

_get_smart_model_selection(smart, pd) ==
    IF smart THEN get_model_rankings(pd, Models) ELSE Models

(* ------------------------------------------------------------- documents *)
\* A page: its native text layer, the size of its rendering, and what the
\* local OCR engine (pytesseract.image_to_string) reads on it.
ScanEdge == [id |-> "scan-edge", native |-> <<>>, width |-> 612, height |-> 792,
             tess |-> Rep("t", MinOcrLen) \o <<"LF">>]
ScanLong == [id |-> "scan-long", native |-> <<>>, width |-> 612, height |-> 792,
             tess |-> Rep("t", MinOcrLen + 1) \o <<"LF">>]
ScanWide == [id |-> "scan-wide", native |-> <<>>,
             width |-> 2 * MaxCols * DefaultSegmentSize, height |-> 2 * DefaultSegmentSize,
             tess |-> <<>>]
TextPage == [id |-> "text-page", native |-> Rep("n", 60) \o <<"LF">>,
             width |-> 612, height |-> 792,
             tess |-> Rep("n", 60) \o <<"LF">>]

ScanPages == {ScanEdge, ScanLong, ScanWide}
\* the documents: scans with at most one wide page, and a text document
Docs ==
    {d \in [1..NumPages -> ScanPages] : Cardinality({i \in 1..NumPages : d[i] = ScanWide}) <= 1}
    \cup {[i \in 1..NumPages |-> TextPage]}

Min(a, b) == IF a < b THEN a ELSE b
Max(a, b) == IF a > b THEN a ELSE b

(* ---------------------------------------------------- ImageQualityAssessor *)
ScoreUnit == 1000000      \* scores are counted in millionths: resolution / 1000000
MaxQualityScore == 100    \* min(100, max(0, quality_score))
NeutralScore == 50        \* {'quality_score': 50}, quality_data.get('quality_score', 50)

\* a dict without keys: quality_data = {}
EmptyDict == [k \in {} |-> 0]

\* mutant: the contributions are neither capped nor clamped
assess_image_quality_NoCaps(image, raises) ==
    [quality_score |->
        image.resolution + image.contrast * (ScoreUnit \div 50)
        + image.sharpness * (ScoreUnit \div 100) + image.text_density * ScoreUnit
        + 10 * ScoreUnit - image.noise_level * (ScoreUnit \div 10)]

\* assess_image_quality.  image holds what numpy and cv2 measure on it:
\* resolution in pixels, contrast, sharpness and noise_level in units,
\* text_density in hundredths; raises is whether the measuring raised.
assess_image_quality(image, raises) ==
    IF raises THEN [quality_score |-> NeutralScore * ScoreUnit]
    ELSE LET quality_score ==
                 Min(image.resolution, 30 * ScoreUnit)
                 + Min(image.contrast * (ScoreUnit \div 50), 20 * ScoreUnit)
                 + Min(image.sharpness * (ScoreUnit \div 100), 25 * ScoreUnit)
                 + Min(image.text_density * ScoreUnit, 15 * ScoreUnit)
                 + Max(0, 10 * ScoreUnit - image.noise_level * (ScoreUnit \div 10))
         IN [quality_score |-> Min(MaxQualityScore * ScoreUnit, Max(0, quality_score))]

\* mutant: the thresholds belong to the lower band
_get_adaptive_timeout_Inclusive(enable_quality_assessment, quality_data) ==
    IF ~enable_quality_assessment THEN 120
    ELSE LET quality_score ==
                 IF "quality_score" \in DOMAIN quality_data
                 THEN quality_data.quality_score ELSE NeutralScore * ScoreUnit
         IN IF quality_score <= 30 * ScoreUnit THEN 180
            ELSE IF quality_score <= 70 * ScoreUnit THEN 120
            ELSE 90

\* _get_adaptive_timeout: the timeout of requests.post, in seconds
_get_adaptive_timeout(enable_quality_assessment, quality_data) ==
    IF ~enable_quality_assessment THEN 120
    ELSE LET quality_score ==
                 IF "quality_score" \in DOMAIN quality_data
                 THEN quality_data.quality_score ELSE NeutralScore * ScoreUnit
         IN IF quality_score < 30 * ScoreUnit THEN 180
            ELSE IF quality_score < 70 * ScoreUnit THEN 120
            ELSE 90

(* ------------------------------------------------------ DocumentClassifier *)
\* mutant: every page is sampled
analyze_pdf_type_AllPages(document, parser_ok) ==
    IF ~parser_ok THEN "image-based"
    ELSE LET text_content == Concat([i \in 1..Len(document) |-> document[i].native])
         IN IF Len(Strip(text_content)) > TextThreshold
            THEN "text-based" ELSE "image-based"

\* analyze_pdf_type: parser_ok is whether fitz opened and read the document
analyze_pdf_type(document, parser_ok) ==
    IF ~parser_ok THEN "image-based"
    ELSE LET text_content ==
                 Concat([i \in 1..Min(SamplePages, Len(document)) |-> document[i].native])
         IN IF Len(Strip(text_content)) > TextThreshold
            THEN "text-based" ELSE "image-based"

(* ------------------------------------------------------------ PdfConverter *)
\* _extract_text_from_pdf
RECURSIVE StrippedNonEmpty(_)
StrippedNonEmpty(texts) ==
    IF texts = <<>> THEN <<>>
    ELSE (IF Strip(Head(texts)) # <<>> THEN <<Strip(Head(texts))>> ELSE <<>>)
         \o StrippedNonEmpty(Tail(texts))

PageBreak == <<"LF", "LF", "--- Page Break ---", "LF", "LF">>

_extract_text_from_pdf(document) ==
    LET all_text == StrippedNonEmpty([i \in 1..Len(document) |-> document[i].native])
    IN IF Len(all_text) > 1 THEN Join(PageBreak, all_text)
       ELSE Join(<<"LF", "LF">>, all_text)

\* PdfConverter.convert(file_path_or_stream): a str is a path; anything else
\* goes to convert_stream, which calls stream.read() and then convert(path).
\* The outcome is [raised, markdown].
PdfConverter_convert(arg_type, document) ==
    IF arg_type = "str" \/ arg_type = "stream"
    THEN [raised |-> FALSE,
          markdown |-> <<"# ", "filename", "LF", "LF">>
                       \o _extract_text_from_pdf(document) \o <<"LF">>]
    ELSE \* bytes has no read(): AttributeError out of convert_stream
         [raised |-> TRUE, markdown |-> <<>>]

\* _process_text_based_pdf(file_data, stream_info): file_data is the bytes
\* that convert read from the path or stream
_process_text_based_pdf(document) == PdfConverter_convert("bytes", document)

(* ------------------------------------------------------------ page images *)
Digit(n) == <<"0", "1", "2", "3", "4", "5", "6", "7", "8", "9">>[n + 1]

\* _optimize_image_advanced: resize so that the largest dimension is at
\* most max_image_size; new_size = int(dim * ratio). Image.resize raises
\* ValueError for a size with a 0 in it; the except clause then returns the
\* image as it was passed in.
_optimize_image_advanced(page, max_image_size) ==
    LET largest == Max(page.width, page.height)
        new_width == (page.width * max_image_size) \div largest
        new_height == (page.height * max_image_size) \div largest
    IN IF largest > max_image_size
       THEN IF new_width = 0 \/ new_height = 0
            THEN page
            ELSE [page EXCEPT !.width = new_width, !.height = new_height]
       ELSE page

\* mutant: the last row and column are cut like the others
_create_image_segments_NoRemainder(width, height, segment_size) ==
    LET cols == Max(1, width \div segment_size)
        rows == Max(1, height \div segment_size)
        segment_width == width \div cols
        segment_height == height \div rows
    IN [k \in 1..(rows * cols) |->
          LET row == (k - 1) \div cols
              col == (k - 1) % cols
          IN [left |-> col * segment_width, top |-> row * segment_height,
              right |-> col * segment_width + segment_width,
              bottom |-> row * segment_height + segment_height]]

\* _create_image_segments: the crop boxes, in the order they are appended
_create_image_segments(width, height, segment_size) ==
    LET cols == Max(1, width \div segment_size)
        rows == Max(1, height \div segment_size)
        segment_width == width \div cols
        segment_height == height \div rows
    IN [k \in 1..(rows * cols) |->
          LET row == (k - 1) \div cols
              col == (k - 1) % cols
              left == col * segment_width
              top == row * segment_height
          IN [left |-> left, top |-> top,
              right |-> IF col < cols - 1 THEN left + segment_width ELSE width,
              bottom |-> IF row < rows - 1 THEN top + segment_height ELSE height]]

\* _extract_text_with_tesseract
_extract_text_with_tesseract(fallback_to_tesseract, image) ==
    IF ~fallback_to_tesseract THEN <<>> ELSE Strip(image.tess)

PageSeparator(n) == <<"LF", "LF", "--- Page ", Digit(n), " ---", "LF", "LF">>

(* ------------------------------------------------------- vision responses *)
\* One line of response.text: json is "object" (a JSON object), "invalid"
\* (json.loads raises JSONDecodeError) or "number" (a JSON value on which
\* `'message' in data` raises TypeError); content is message.content when
\* the object has one.
ContentLine(t) == [json |-> "object", has_content |-> TRUE, content |-> t]
OtherLine(j) == [json |-> j, has_content |-> FALSE, content |-> <<>>]

\* what the models read on segment seg of page page: every model answers in
\* its own words; the text comes streamed in two fragments after a line
\* that is not JSON
ModelTag(model) ==
    <<"a", "b", "c", "d", "e">>[CHOOSE i \in 1..Len(fallback_vision_models) :
                                    fallback_vision_models[i] = model]

TextBody(model, page, seg) ==
    << OtherLine("invalid"),
       ContentLine(<<" ", ModelTag(model), "p", Digit(page)>>),
       ContentLine(<<"s", Digit(seg), "LF">>) >>

BlankBody == << ContentLine(<<" ">>), ContentLine(<<"LF">>) >>

\* the answers one request can get
Responses(model, page, seg) ==
    { [kind |-> "exception", status |-> 0, body |-> <<>>],      \* timeout, connection error
      [kind |-> "http", status |-> 500, body |-> <<>>],
      [kind |-> "http", status |-> 200, body |-> BlankBody],
      [kind |-> "http", status |-> 200, body |-> TextBody(model, page, seg)] }

ResponseTimes == {2}

RECURSIVE content_parts(_)
content_parts(body) ==
    IF body = <<>> THEN <<>>
    ELSE (IF Head(body).json = "object" /\ Head(body).has_content
          THEN <<Head(body).content>> ELSE <<>>) \o content_parts(Tail(body))

ParseRaises(body) == \E i \in 1..Len(body) : body[i].json = "number"

\* What one pass of the `for model in models_to_try` body does with the
\* response: "success" (return text), "failure" (record_failure, next model)
\* or "empty" (status 200 without text: next model).
AttemptResult(resp) ==
    IF resp.kind = "exception" THEN [kind |-> "failure", text |-> <<>>]
    ELSE IF resp.status = 200
    THEN IF ParseRaises(resp.body) THEN [kind |-> "failure", text |-> <<>>]
         ELSE LET parts == content_parts(resp.body)
                  text == Strip(Concat(parts))
              IN IF parts # <<>> /\ text # <<>>
                 THEN [kind |-> "success", text |-> text]
                 ELSE [kind |-> "empty", text |-> <<>>]
    ELSE [kind |-> "failure", text |-> <<>>]

(* ------------------------------------------------------- segment combining *)
\* segment_texts.sort(key=lambda x: x[0]): stable, ascending.
\* InsertByIndex puts x, collected before the pairs of `sorted`, before the
\* first of them whose index is not smaller.
RECURSIVE InsertByIndex(_, _)
InsertByIndex(x, sorted) ==
    IF sorted = <<>> THEN <<x>>
    ELSE IF x[1] <= Head(sorted)[1] THEN <<x>> \o sorted
    ELSE <<Head(sorted)>> \o InsertByIndex(x, Tail(sorted))

\* mutant: the results stay in the order they were collected
SortByIndex_Unsorted(pairs) == pairs

RECURSIVE SortByIndex(_)
SortByIndex(pairs) ==
    IF pairs = <<>> THEN <<>>
    ELSE InsertByIndex(Head(pairs), SortByIndex(Tail(pairs)))

_combine_segment_texts(segment_texts) ==
    LET sorted == SortByIndex(segment_texts)
        combined == StrippedNonEmpty([i \in 1..Len(sorted) |-> sorted[i][2]])
    IN Join(<<"LF", "LF">>, combined)

(* ================================================================= state *)
VARIABLES
    config,             \* the constructor's arguments
    enable_caching,     \* self.enable_caching
    doc,                \* the document handed to convert
    pc,                 \* convert: "start", "pages", "done", "raised"
    pdf_type,           \* what analyze_pdf_type returned ("" before)
    optimized_images,   \* _convert_pdf_to_optimized_images_advanced's list
    page_num,           \* the page loop's index (0-based)
    all_text,           \* page texts and separators, as appended
    processing_methods,
    result,             \* Optional[DocumentConverterResult]
    cache_files,        \* the cache directory: key -> file content
    performance_data,   \* model_tracker.performance_data
    stage,              \* the page loop: "top", "single", "parallel", "sequential"
    tasks,              \* the fallback chains of the page's image or segments
    all_texts,          \* (segment_idx, text) as collected
    timed_out,          \* as_completed raised TimeoutError
    tess_log,           \* local OCR runs on the page: was the vision step over?
    key_was_cached,     \* the page's key had a cache file when the page began
    requests_sent,      \* per model: requests posted to it, earlier runs included
    record_calls,       \* per model: record_success / record_failure calls completed
    call,               \* a direct call of one method: [fn, args]
    ret,                \* Optional: what the call returned
    saved_texts         \* the text last passed to _save_cached_result, per key

vars == <<config, enable_caching, doc, pc, pdf_type, optimized_images, page_num,
          all_text, processing_methods, result, cache_files, performance_data,
          stage, tasks, all_texts, timed_out, tess_log, key_was_cached,
          requests_sent, record_calls, call, ret, saved_texts>>

\* what no step of convert changes
docVars == <<config, enable_caching, doc, call, ret, saved_texts>>
loopVars == <<page_num, all_text, processing_methods>>
pageVars == <<stage, tasks, all_texts, timed_out, tess_log, key_was_cached>>

BaseConfig ==
    [enable_parallel |-> TRUE, enable_smart_model_selection |-> TRUE,
     fallback_to_tesseract |-> TRUE, max_workers |-> DefaultMaxWorkers,
     segment_size |-> DefaultSegmentSize,
     max_image_size |-> MaxCols * DefaultSegmentSize]

\* what earlier runs can have left in the cache directory
EmptyCache == << >>
OldCache == [k \in {_get_cache_key(ScanEdge)} |-> WriteText(<<"o", "l", "d">>)]

\* what load_performance_data can have loaded
FreshHistory == [m \in ModelSet |-> NewRecord]
OldHistory ==
    [FreshHistory EXCEPT ![Models[NumModels]] =
        [success_count |-> 1, failure_count |-> 0, avg_num |-> 2, avg_den |-> 1]]

\* the converters the runs are made with: constructor arguments, whether
\* _setup_cache left caching on, the cache directory, the loaded history
Setups ==
    { [config |-> BaseConfig, caching |-> TRUE, cache |-> EmptyCache, history |-> FreshHistory],
      [config |-> BaseConfig, caching |-> TRUE, cache |-> OldCache, history |-> OldHistory],
      [config |-> [BaseConfig EXCEPT !.enable_parallel = FALSE],
       caching |-> TRUE, cache |-> EmptyCache, history |-> OldHistory],
      [config |-> [BaseConfig EXCEPT !.enable_smart_model_selection = FALSE],
       caching |-> FALSE, cache |-> OldCache, history |-> FreshHistory],
      [config |-> [BaseConfig EXCEPT !.fallback_to_tesseract = FALSE],
       caching |-> TRUE, cache |-> EmptyCache, history |-> FreshHistory],
      [config |-> [BaseConfig EXCEPT !.max_workers = 1],
       caching |-> TRUE, cache |-> EmptyCache, history |-> FreshHistory] }

NewTask ==
    [st |-> "queued", models_to_try |-> <<>>, idx |-> 0, rec |-> "", loaded |-> 0,
     rt |-> 0, text |-> <<>>, result |-> <<>>, log |-> <<>>, collected |-> FALSE]

Init ==
    /\ \E setup \in Setups :
          /\ config = setup.config
          /\ enable_caching = setup.caching
          /\ cache_files = setup.cache
          /\ performance_data = setup.history
          /\ requests_sent = [m \in ModelSet |->
                setup.history[m].success_count + setup.history[m].failure_count]
          /\ record_calls = [m \in ModelSet |->
                [success |-> setup.history[m].success_count,
                 failure |-> setup.history[m].failure_count]]
    /\ doc \in Docs
    /\ pc = "start"
    /\ pdf_type = ""
    /\ optimized_images = <<>>
    /\ page_num = 0
    /\ all_text = <<>>
    /\ processing_methods = <<>>
    /\ result = <<>>
    /\ stage = "top"
    /\ tasks = <<>>
    /\ all_texts = <<>>
    /\ timed_out = FALSE
    /\ tess_log = <<>>
    /\ key_was_cached = FALSE
    /\ call = [fn |-> "convert", args |-> <<>>]
    /\ ret = <<>>
    /\ saved_texts = << >>

(* =============================================================== convert *)
\* convert, text-based branch: return self._process_text_based_pdf(...)
ConvertTextBased ==
    /\ pc = "start"
    /\ \E parser_ok \in BOOLEAN :
          analyze_pdf_type(doc, parser_ok) = "text-based"
    /\ pdf_type' = "text-based"
    /\ LET r == _process_text_based_pdf(doc)
       IN IF r.raised
          THEN pc' = "raised" /\ result' = <<>>
          ELSE pc' = "done" /\ result' = <<[markdown |-> r.markdown, metadata |-> <<>>]>>
    /\ UNCHANGED <<requests_sent, record_calls, docVars, optimized_images, loopVars, cache_files,
                   performance_data, pageVars>>

\* convert, image-based branch, after every page was rendered and optimized
ConvertImageBased ==
    /\ pc = "start"
    /\ \E parser_ok \in BOOLEAN :
          analyze_pdf_type(doc, parser_ok) = "image-based"
    /\ pdf_type' = "image-based"
    /\ optimized_images' =
          [i \in 1..Len(doc) |-> _optimize_image_advanced(doc[i], config.max_image_size)]
    /\ pc' = "pages"
    /\ UNCHANGED <<requests_sent, record_calls, docVars, loopVars, result, cache_files, performance_data, pageVars>>

\* mutant: a page that cannot be rendered is left out and the others go on
RasterizeFails_SkipsPage ==
    /\ pc = "start"
    /\ \E parser_ok \in BOOLEAN :
          analyze_pdf_type(doc, parser_ok) = "image-based"
    /\ pdf_type' = "image-based"
    /\ \E k \in 1..Len(doc) :
          optimized_images' =
              [i \in 1..(Len(doc) - 1) |->
                  _optimize_image_advanced(doc[IF i < k THEN i ELSE i + 1],
                                           config.max_image_size)]
    /\ pc' = "pages"
    /\ UNCHANGED <<requests_sent, record_calls, docVars, loopVars, result, cache_files,
                   performance_data, pageVars>>

\* _convert_pdf_to_optimized_images_advanced raises (fitz, PIL): re-raised
RasterizeFails ==
    /\ pc = "start"
    /\ \E parser_ok \in BOOLEAN :
          analyze_pdf_type(doc, parser_ok) = "image-based"
    /\ pdf_type' = "image-based"
    /\ pc' = "raised"
    /\ UNCHANGED <<requests_sent, record_calls, docVars, optimized_images, loopVars, result, cache_files,
                   performance_data, pageVars>>

(* ============================================================= page loop *)
AtPageTop == pc = "pages" /\ stage = "top" /\ page_num < Len(optimized_images)

image_data == optimized_images[page_num + 1]
cache_key == _get_cache_key(image_data)
cached_result == _get_cached_result(enable_caching, cache_files, cache_key)

\* mutant: the cached text is never taken
CacheHit_Never == FALSE

\* `if cached_result:` -- neither None nor ""
CacheHit == cached_result # <<>> /\ cached_result[1] # <<>>

traditional_text == _extract_text_with_tesseract(config.fallback_to_tesseract, image_data)

\* mutant: a text of exactly 50 characters is accepted
TraditionalAccepted_AtLeast ==
    traditional_text # <<>> /\ Len(Strip(traditional_text)) >= MinOcrLen

\* `if traditional_text and len(traditional_text.strip()) > 50`
TraditionalAccepted ==
    traditional_text # <<>> /\ Len(Strip(traditional_text)) > MinOcrLen

\* the local OCR engine runs when _extract_text_with_tesseract gets past its
\* fallback_to_tesseract test; the entry says whether the vision step was over
TessRun(after_vision) ==
    IF config.fallback_to_tesseract THEN <<after_vision>> ELSE <<>>

\* mutant: the page is put in front of the pages before it
AppendPage_InFront(page_text, processing_method) ==
    /\ all_text' = <<page_text>>
                   \o (IF page_num < Len(optimized_images) - 1
                       THEN <<PageSeparator(page_num + 2)>> ELSE <<>>)
                   \o all_text
    /\ processing_methods' = Append(processing_methods, processing_method)
    /\ page_num' = page_num + 1

\* the end of one iteration: all_text.append(page_text), the method, the
\* separator unless this is the last page
AppendPage(page_text, processing_method) ==
    /\ all_text' = Append(all_text, page_text)
                   \o (IF page_num < Len(optimized_images) - 1
                       THEN <<PageSeparator(page_num + 2)>> ELSE <<>>)
    /\ processing_methods' = Append(processing_methods, processing_method)
    /\ page_num' = page_num + 1

\* an iteration that takes the cached text
PageCached ==
    /\ AtPageTop
    /\ CacheHit
    /\ AppendPage(cached_result[1], <<"Cached Result">>)
    /\ key_was_cached' = (cache_key \in DOMAIN cache_files)
    /\ tess_log' = <<>>
    /\ tasks' = <<>>
    /\ all_texts' = <<>>
    /\ timed_out' = FALSE
    /\ UNCHANGED <<requests_sent, record_calls, docVars, pc, pdf_type, optimized_images, result, cache_files,
                   performance_data, stage>>

\* an iteration that takes the local OCR text
PageTraditional ==
    /\ AtPageTop
    /\ ~CacheHit
    /\ TraditionalAccepted
    /\ AppendPage(traditional_text, <<"Traditional OCR (Tesseract)">>)
    /\ cache_files' = _save_cached_result(enable_caching, cache_files, cache_key,
                                          traditional_text)
    /\ key_was_cached' = (cache_key \in DOMAIN cache_files)
    /\ tess_log' = TessRun(FALSE)
    /\ tasks' = <<>>
    /\ all_texts' = <<>>
    /\ timed_out' = FALSE
    /\ UNCHANGED <<requests_sent, record_calls, docVars, pc, pdf_type, optimized_images, result,
                   performance_data, stage>>

\* _process_image_with_advanced_vision_ocr and
\* _process_image_with_segmentation_advanced: which way the image goes
VisionMode(image) ==
    IF Max(image.width, image.height) > config.segment_size
    THEN IF config.enable_parallel
            /\ Len(_create_image_segments(image.width, image.height,
                                          config.segment_size)) > 1
         THEN "parallel" ELSE "sequential"
    ELSE "single"

VisionTasks(image) ==
    IF Max(image.width, image.height) > config.segment_size
    THEN [i \in 1..Len(_create_image_segments(image.width, image.height,
                                              config.segment_size)) |-> NewTask]
    ELSE <<NewTask>>

\* an iteration that goes to the vision step
PageVision ==
    /\ AtPageTop
    /\ ~CacheHit
    /\ ~TraditionalAccepted
    /\ stage' = VisionMode(image_data)
    /\ tasks' = VisionTasks(image_data)
    /\ all_texts' = <<>>
    /\ timed_out' = FALSE
    /\ tess_log' = TessRun(FALSE)
    /\ key_was_cached' = (cache_key \in DOMAIN cache_files)
    /\ UNCHANGED <<requests_sent, record_calls, docVars, pc, pdf_type, optimized_images, loopVars, result,
                   cache_files, performance_data>>

(* ====================================================== the fallback chain *)
InVision == pc = "pages" /\ stage \in {"single", "parallel", "sequential"}

Running(t) == t.st \in {"post", "load", "store"}

\* when the chain of segment i (or of the whole image) may begin
MayStart(i) ==
    CASE stage = "single" -> TRUE
      [] stage = "sequential" ->
            \A j \in 1..(i - 1) : tasks[j].st = "done" /\ tasks[j].collected
      [] stage = "parallel" ->
            /\ \A j \in 1..(i - 1) : tasks[j].st # "queued"
            /\ Cardinality({j \in 1..Len(tasks) : Running(tasks[j])}) < config.max_workers
      [] OTHER -> FALSE

\* models_to_try = self._get_smart_model_selection()
TaskStart(i) ==
    /\ InVision
    /\ tasks[i].st = "queued"
    /\ MayStart(i)
    /\ tasks' = [tasks EXCEPT ![i] =
          [@ EXCEPT !.st = "post", !.idx = 1,
                    !.models_to_try = _get_smart_model_selection(
                        config.enable_smart_model_selection, performance_data)]]
    /\ UNCHANGED <<requests_sent, record_calls, docVars, pc, pdf_type, optimized_images, loopVars, result,
                   cache_files, performance_data, stage, all_texts, timed_out,
                   tess_log, key_was_cached>>

\* mutant: `continue` goes back to the model that just failed
NextModel_SameModel(t) == [t EXCEPT !.st = "post"]

\* `continue`, or the end of the for loop: return ""
NextModel(t) ==
    IF t.idx < Len(t.models_to_try)
    THEN [t EXCEPT !.st = "post", !.idx = t.idx + 1]
    ELSE [t EXCEPT !.st = "done", !.result = <<>>]

\* mutant: the loop goes on after a model answered with text
ReturnText_KeepsTrying(t, text) == NextModel([t EXCEPT !.result = text])

\* `return text`
ReturnText(t, text) == [t EXCEPT !.st = "done", !.result = text]

\* what follows the response, up to the tracker call (if any)
AfterResponse(t, resp, response_time) ==
    LET r == AttemptResult(resp)
        smart == config.enable_smart_model_selection
    IN CASE r.kind = "success" ->
              IF smart
              THEN [t EXCEPT !.st = "load", !.rec = "success", !.text = r.text,
                             !.rt = response_time]
              ELSE ReturnText(t, r.text)
         [] r.kind = "failure" ->
              IF smart THEN [t EXCEPT !.st = "load", !.rec = "failure"]
              ELSE NextModel(t)
         [] OTHER -> NextModel(t)

\* requests.post(url, json=payload, timeout=timeout) to models_to_try[idx]
Attempt(i, resp, response_time) ==
    /\ InVision
    /\ tasks[i].st = "post"
    /\ tasks' = [tasks EXCEPT ![i] =
          AfterResponse([@ EXCEPT !.log = Append(@, [model |-> tasks[i].models_to_try[tasks[i].idx],
                                                      resp |-> resp])],
                        resp, response_time)]
    /\ requests_sent' = [requests_sent EXCEPT ![tasks[i].models_to_try[tasks[i].idx]] = @ + 1]
    /\ UNCHANGED <<record_calls, docVars, pc, pdf_type, optimized_images, loopVars, result,
                   cache_files, performance_data, stage, all_texts, timed_out,
                   tess_log, key_was_cached>>

TaskModel(t) == t.models_to_try[t.idx]

\* record_success / record_failure, first half: data[...] is read
RecordLoad(i) ==
    /\ InVision
    /\ tasks[i].st = "load"
    /\ LET data == performance_data[TaskModel(tasks[i])]
       IN tasks' = [tasks EXCEPT ![i] =
             [@ EXCEPT !.st = "store",
                       !.loaded = IF tasks[i].rec = "success"
                                  THEN data.success_count ELSE data.failure_count]]
    /\ UNCHANGED <<requests_sent, record_calls, docVars, pc, pdf_type, optimized_images, loopVars, result,
                   cache_files, performance_data, stage, all_texts, timed_out,
                   tess_log, key_was_cached>>

\* record_success / record_failure, second half: the sum is stored
RecordStore(i) ==
    /\ InVision
    /\ tasks[i].st = "store"
    /\ LET t == tasks[i]
           m == TaskModel(t)
       IN /\ performance_data' = [performance_data EXCEPT ![m] =
                 IF t.rec = "success" THEN StoreSuccess(@, t.loaded, t.rt)
                 ELSE StoreFailure(@, t.loaded)]
          /\ tasks' = [tasks EXCEPT ![i] =
                 IF t.rec = "success" THEN ReturnText(t, t.text) ELSE NextModel(t)]
          /\ record_calls' = [record_calls EXCEPT ![m] =
                 IF t.rec = "success" THEN [@ EXCEPT !.success = @ + 1]
                 ELSE [@ EXCEPT !.failure = @ + 1]]
    /\ UNCHANGED <<requests_sent, docVars, pc, pdf_type, optimized_images, loopVars, result,
                   cache_files, stage, all_texts, timed_out, tess_log, key_was_cached>>

\* all_texts.append((segment_idx, segment_text)): in the as_completed loop,
\* or after the call in the sequential loop
Collect(i) ==
    /\ InVision
    /\ stage # "single"
    /\ ~timed_out
    /\ tasks[i].st = "done"
    /\ ~tasks[i].collected
    /\ all_texts' = Append(all_texts, <<i - 1, tasks[i].result>>)
    /\ tasks' = [tasks EXCEPT ![i].collected = TRUE]
    /\ UNCHANGED <<requests_sent, record_calls, docVars, pc, pdf_type, optimized_images, loopVars, result,
                   cache_files, performance_data, stage, timed_out, tess_log,
                   key_was_cached>>

\* as_completed(..., timeout=self.timeout) raises TimeoutError while a
\* future is unfinished; the with block then waits for the pool to drain
AsCompletedTimeout ==
    /\ InVision
    /\ stage = "parallel"
    /\ ~timed_out
    /\ \E i \in 1..Len(tasks) : tasks[i].st # "done"
    /\ timed_out' = TRUE
    /\ UNCHANGED <<requests_sent, record_calls, docVars, pc, pdf_type, optimized_images, loopVars, result,
                   cache_files, performance_data, stage, tasks, all_texts,
                   tess_log, key_was_cached>>

\* what the vision step returns: <<page_text, method>>
VisionResult ==
    CASE stage = "single" ->
            IF tasks[1].result # <<>>
            THEN <<tasks[1].result, <<"Advanced Vision OCR", TaskModel(tasks[1])>>>>
            ELSE << <<>>, <<"Advanced Vision OCR failed">> >>
      [] timed_out -> << <<>>, <<"Error">> >>
      [] stage = "parallel" ->
            <<_combine_segment_texts(all_texts),
              <<"Advanced Vision OCR (Parallel, segments)", Digit(Len(tasks))>> >>
      [] OTHER ->
            <<_combine_segment_texts(all_texts),
              <<"Advanced Vision OCR (Sequential, segments)", Digit(Len(tasks))>> >>

VisionOver ==
    /\ \A i \in 1..Len(tasks) : tasks[i].st = "done"
    /\ stage = "single" \/ timed_out \/ \A i \in 1..Len(tasks) : tasks[i].collected

\* mutant: a page without text aborts the conversion
PageVisionFinish_Raises ==
    /\ InVision
    /\ VisionOver
    /\ LET page_text == VisionResult[1]
           method == VisionResult[2]
       IN /\ cache_files' =
                 IF page_text # <<>>
                 THEN _save_cached_result(enable_caching, cache_files, cache_key, page_text)
                 ELSE cache_files
          /\ AppendPage(page_text, method)
          /\ pc' = IF page_text = <<>> THEN "raised" ELSE pc
    /\ stage' = "top"
    /\ UNCHANGED <<requests_sent, record_calls, docVars, pdf_type, optimized_images, result, performance_data,
                   tasks, all_texts, timed_out, tess_log, key_was_cached>>

\* the vision step returns; the page loop caches and appends its text
PageVisionFinish ==
    /\ InVision
    /\ VisionOver
    /\ LET page_text == VisionResult[1]
           method == VisionResult[2]
       IN /\ cache_files' =
                 IF page_text # <<>>
                 THEN _save_cached_result(enable_caching, cache_files, cache_key, page_text)
                 ELSE cache_files
          /\ AppendPage(page_text, method)
    /\ stage' = "top"
    /\ UNCHANGED <<requests_sent, record_calls, docVars, pc, pdf_type, optimized_images, result, performance_data,
                   tasks, all_texts, timed_out, tess_log, key_was_cached>>

\* the metadata dict built after the loop (processing methods, page count)
metadata ==
    [processing_methods |-> processing_methods, total_pages |-> Len(optimized_images)]

\* mutant: the result is built while pages are still to be processed
ReturnResult_Early ==
    /\ pc = "pages"
    /\ result' = <<[markdown |-> Concat(all_text), metadata |-> <<>>]>>
    /\ pc' = "done"
    /\ UNCHANGED <<requests_sent, record_calls, docVars, pdf_type, optimized_images, loopVars, cache_files,
                   performance_data, pageVars>>

\* DocumentConverterResult(markdown=combined_text): the metadata argument is
\* not passed and keeps its default, None
\* after the loop: "".join(all_text), DocumentConverterResult(markdown=...)
ReturnResult ==
    /\ pc = "pages"
    /\ stage = "top"
    /\ page_num = Len(optimized_images)
    /\ result' = <<[markdown |-> Concat(all_text), metadata |-> <<>>]>>
    /\ pc' = "done"
    /\ UNCHANGED <<requests_sent, record_calls, docVars, pdf_type, optimized_images, loopVars, cache_files,
                   performance_data, pageVars>>

Next ==
    \/ ConvertTextBased
    \/ ConvertImageBased
    \/ RasterizeFails
    \/ PageCached
    \/ PageTraditional
    \/ PageVision
    \/ \E i \in 1..Len(tasks) : TaskStart(i)
    \/ \E i \in {j \in 1..Len(tasks) : tasks[j].st = "post"}, rt \in ResponseTimes :
          \E resp \in Responses(TaskModel(tasks[i]), page_num + 1, i - 1) :
             Attempt(i, resp, rt)
    \/ \E i \in 1..Len(tasks) : RecordLoad(i)
    \/ \E i \in 1..Len(tasks) : RecordStore(i)
    \/ \E i \in 1..Len(tasks) : Collect(i)
    \/ AsCompletedTimeout
    \/ PageVisionFinish
    \/ ReturnResult

Spec == Init /\ [][Next]_vars

\* one step of the chain of segment i: the answer to its request, or a half
\* of its tracker call
ChainStep(i) ==
    \/ /\ i <= Len(tasks)
       /\ tasks[i].st = "post"
       /\ \E rt \in ResponseTimes :
             \E resp \in Responses(TaskModel(tasks[i]), page_num + 1, i - 1) :
                Attempt(i, resp, rt)
    \/ i <= Len(tasks) /\ RecordLoad(i)
    \/ i <= Len(tasks) /\ RecordStore(i)

\* the converters that process segments in parallel, with the default number
\* of workers, with and without smart model selection
InitFair ==
    /\ Init
    /\ config.enable_parallel
    /\ config.fallback_to_tesseract
    /\ config.max_workers = DefaultMaxWorkers

\* requests.post(..., timeout=timeout) returns or raises, and the thread
\* that runs a chain is not starved: a chain that can take a step takes one
SpecFair == InitFair /\ [][Next]_vars /\ \A i \in 1..MaxCols : WF_vars(ChainStep(i))

(* ==================================================== methods called alone *)
\* a converter on which convert is not running
NoConversion ==
    /\ config = BaseConfig
    /\ doc = <<>>
    /\ performance_data = FreshHistory
    /\ pc = "idle"
    /\ pdf_type = ""
    /\ optimized_images = <<>>
    /\ page_num = 0
    /\ all_text = <<>>
    /\ processing_methods = <<>>
    /\ result = <<>>
    /\ stage = "top"
    /\ tasks = <<>>
    /\ all_texts = <<>>
    /\ timed_out = FALSE
    /\ tess_log = <<>>
    /\ key_was_cached = FALSE
    /\ requests_sent = [m \in ModelSet |-> 0]
    /\ record_calls = [m \in ModelSet |-> [success |-> 0, failure |-> 0]]

noConversionVars ==
    <<config, doc, performance_data, pc, pdf_type, optimized_images, page_num,
      all_text, processing_methods, result, stage, tasks, all_texts, timed_out,
      tess_log, key_was_cached, requests_sent, record_calls>>

MaxSegments == 4     \* segments of one page in the calls of _combine_segment_texts

SegmentLetter(i) == <<"A", "B", "C", "D", "E", "F">>[i + 1]

\* what a segment's text can be: none, blank, or its letter with blanks around
SegmentTexts(i) == { <<>>, <<" ", "LF">>, <<SegmentLetter(i)>>, <<" ", SegmentLetter(i), "LF">> }

\* the orders in which the futures of the segments 0..n-1 can complete
CompletionOrders(n) ==
    {o \in [1..n -> 0..(n - 1)] : \A a, b \in 1..n : a # b => o[a] # o[b]}

CombineCalls ==
    {[fn |-> "_combine_segment_texts",
      args |-> [k \in 1..MaxSegments |-> <<o[k], txt[o[k] + 1]>>]] :
        o \in CompletionOrders(MaxSegments),
        txt \in {t \in [1..MaxSegments -> UNION {SegmentTexts(i) : i \in 0..(MaxSegments - 1)}] :
                    \A i \in 1..MaxSegments : t[i] \in SegmentTexts(i - 1)}}

InitCombine ==
    /\ NoConversion
    /\ enable_caching = TRUE
    /\ cache_files = EmptyCache
    /\ saved_texts = << >>
    /\ call \in CombineCalls
    /\ ret = <<>>

\* combined_text = self._combine_segment_texts(all_texts)
CombineSegments ==
    /\ call.fn = "_combine_segment_texts"
    /\ ret = <<>>
    /\ ret' = <<_combine_segment_texts(call.args)>>
    /\ UNCHANGED <<noConversionVars, enable_caching, cache_files, saved_texts, call>>

NextCombine == CombineSegments

SpecCombine == InitCombine /\ [][NextCombine]_vars

(* ------------------------------------------------- the cache, called alone *)
MaxTextLen == 2      \* longest text passed to _save_cached_result

CacheChars == {"a", "CR", "LF"}

RECURSIVE TextsUpTo(_)
TextsUpTo(n) ==
    IF n = 0 THEN {<<>>}
    ELSE TextsUpTo(n - 1)
         \cup {Append(t, c) : t \in {x \in TextsUpTo(n - 1) : Len(x) = n - 1}, c \in CacheChars}

CacheTexts == TextsUpTo(MaxTextLen)
CacheKeys == {_get_cache_key(ScanEdge), _get_cache_key(ScanLong)}

InitCache ==
    /\ NoConversion
    /\ enable_caching = TRUE
    /\ cache_files = EmptyCache
    /\ saved_texts = << >>
    /\ call = [fn |-> "__init__", args |-> <<>>]
    /\ ret = <<>>

\* self._save_cached_result(key, text)
SaveCachedResult(key, text) ==
    /\ call' = [fn |-> "_save_cached_result", args |-> <<key, text>>]
    /\ cache_files' = _save_cached_result(enable_caching, cache_files, key, text)
    /\ saved_texts' = [k \in DOMAIN saved_texts \cup {key} |->
                          IF k = key THEN text ELSE saved_texts[k]]
    /\ ret' = <<>>
    /\ UNCHANGED <<noConversionVars, enable_caching>>

\* self._get_cached_result(key)
GetCachedResult(key) ==
    /\ call' = [fn |-> "_get_cached_result", args |-> <<key>>]
    /\ ret' = <<_get_cached_result(enable_caching, cache_files, key)>>
    /\ UNCHANGED <<noConversionVars, enable_caching, cache_files, saved_texts>>

NextCache ==
    \/ \E key \in CacheKeys, text \in CacheTexts : SaveCachedResult(key, text)
    \/ \E key \in CacheKeys : GetCachedResult(key)

SpecCache == InitCache /\ [][NextCache]_vars

(* --------------------------- the cache on a failing disk, called alone *)
\* whether the file operation of a call works or raises (OSError,
\* UnicodeDecodeError)
IoOutcomes == {"ok", "error"}

FaultTexts == {t \in CacheTexts : Len(t) = 1}

\* __init__: self._setup_cache(); when os.makedirs raises, caching is
\* switched off
SetupCache(io) ==
    /\ call.fn = "__init__"
    /\ call' = [fn |-> "_setup_cache", args |-> <<>>, io |-> io]
    /\ enable_caching' = (io = "ok")
    /\ ret' = <<>>
    /\ UNCHANGED <<noConversionVars, cache_files, saved_texts>>

\* self._get_cached_result(key): an error while opening or reading the file
\* is logged and None is returned
GetCachedResultIO(key, io) ==
    /\ call.fn # "__init__"
    /\ io = "error" => (enable_caching /\ key \in DOMAIN cache_files)
    /\ call' = [fn |-> "_get_cached_result", args |-> <<key>>, io |-> io]
    /\ ret' = IF io = "error" THEN << <<>> >>
              ELSE <<_get_cached_result(enable_caching, cache_files, key)>>
    /\ UNCHANGED <<noConversionVars, enable_caching, cache_files, saved_texts>>

\* self._save_cached_result(key, text): an error is logged; open may have
\* failed (nothing changes) or write may have failed (the file is left empty)
SaveCachedResultIO(key, text, io) ==
    /\ call.fn # "__init__"
    /\ io = "error" => enable_caching
    /\ call' = [fn |-> "_save_cached_result", args |-> <<key, text>>, io |-> io]
    /\ cache_files' \in
          IF io = "ok"
          THEN {_save_cached_result(enable_caching, cache_files, key, text)}
          ELSE {cache_files, _save_cached_result(enable_caching, cache_files, key, <<>>)}
    /\ saved_texts' = [k \in DOMAIN saved_texts \cup {key} |->
                          IF k = key THEN text ELSE saved_texts[k]]
    /\ ret' = <<>>
    /\ UNCHANGED <<noConversionVars, enable_caching>>

NextCacheFaults ==
    \/ \E io \in IoOutcomes : SetupCache(io)
    \/ \E key \in CacheKeys, io \in IoOutcomes : GetCachedResultIO(key, io)
    \/ \E key \in CacheKeys, text \in FaultTexts, io \in IoOutcomes :
          SaveCachedResultIO(key, text, io)

SpecCacheFaults == InitCache /\ [][NextCacheFaults]_vars

(* ------------------------------------------ the segmenter, called alone *)
MaxDim == 6          \* largest width and height, in pixels
MaxSegmentSize == 4  \* largest self.segment_size

\* _create_image_segments(image) with the image's size and self.segment_size
SegmentCalls ==
    {[fn |-> "_create_image_segments", args |-> <<w, h, s>>] :
        w \in 1..MaxDim, h \in 1..MaxDim, s \in 1..MaxSegmentSize}
    \cup {[fn |-> "_create_image_segments", args |-> <<2000, 1600, 800>>]}

InitSegments ==
    /\ NoConversion
    /\ enable_caching = TRUE
    /\ cache_files = EmptyCache
    /\ saved_texts = << >>
    /\ call \in SegmentCalls
    /\ ret = <<>>

\* segments = self._create_image_segments(image)
CreateImageSegments ==
    /\ call.fn = "_create_image_segments"
    /\ ret = <<>>
    /\ ret' = <<_create_image_segments(call.args[1], call.args[2], call.args[3])>>
    /\ UNCHANGED <<noConversionVars, enable_caching, cache_files, saved_texts, call>>

NextSegments == CreateImageSegments

SpecSegments == InitSegments /\ [][NextSegments]_vars

(* ----------------------------------------- the classifier, called alone *)
MaxDocPages == 4     \* pages of a document handed to analyze_pdf_type

\* native text layers: none, 50 characters and a line end, 50 characters,
\* 101 characters
NativeTexts ==
    { <<>>, Rep("n", 50) \o <<"LF">>, Rep("n", 50), Rep("n", TextThreshold + 1) }

NativePage(t) ==
    [id |-> "native", native |-> t, width |-> 612, height |-> 792, tess |-> <<>>]

\* fitz is there and reads the document, cannot be imported, or raises
ParserOutcomes == {"ok", "ImportError", "Exception"}

ClassifyCalls ==
    {[fn |-> "analyze_pdf_type", args |-> <<[i \in 1..n |-> NativePage(texts[i])], parser>>] :
        n \in 1..MaxDocPages, texts \in [1..MaxDocPages -> NativeTexts],
        parser \in ParserOutcomes}

InitClassify ==
    /\ NoConversion
    /\ enable_caching = TRUE
    /\ cache_files = EmptyCache
    /\ saved_texts = << >>
    /\ call \in ClassifyCalls
    /\ ret = <<>>

\* pdf_type = self.pdf_processor.analyze_pdf_type(file_data)
AnalyzePdfType ==
    /\ call.fn = "analyze_pdf_type"
    /\ ret = <<>>
    /\ ret' = <<analyze_pdf_type(call.args[1], call.args[2] = "ok")>>
    /\ UNCHANGED <<noConversionVars, enable_caching, cache_files, saved_texts, call>>

NextClassify == AnalyzePdfType

SpecClassify == InitClassify /\ [][NextClassify]_vars

(* ------------------------------------ the adaptive timeout, called alone *)
QualityDicts ==
    {EmptyDict}
    \cup {[quality_score |-> q * ScoreUnit] : q \in 0..MaxQualityScore}
    \cup {[quality_score |-> 30 * ScoreUnit - 1], [quality_score |-> 70 * ScoreUnit - 1]}

TimeoutCalls ==
    {[fn |-> "_get_adaptive_timeout", args |-> <<enabled, quality_data>>] :
        enabled \in BOOLEAN, quality_data \in QualityDicts}

InitTimeout ==
    /\ NoConversion
    /\ enable_caching = TRUE
    /\ cache_files = EmptyCache
    /\ saved_texts = << >>
    /\ call \in TimeoutCalls
    /\ ret = <<>>

\* timeout = self._get_adaptive_timeout(quality_data)
GetAdaptiveTimeout ==
    /\ call.fn = "_get_adaptive_timeout"
    /\ ret = <<>>
    /\ ret' = <<_get_adaptive_timeout(call.args[1], call.args[2])>>
    /\ UNCHANGED <<noConversionVars, enable_caching, cache_files, saved_texts, call>>

NextTimeout == GetAdaptiveTimeout

SpecTimeout == InitTimeout /\ [][NextTimeout]_vars

(* ------------------------------------ the quality assessor, called alone *)
\* what is measured on an image: below, at and above the cap of each term
Resolutions == {1, 480000, 30 * ScoreUnit, 40 * ScoreUnit}
Contrasts == {0, 60, 1000, 2000}
Sharpnesses == {0, 2500, 3000}
TextDensities == {0, 15, 100}
NoiseLevels == {0, 50, 100, 200}

QualityCalls ==
    {[fn |-> "assess_image_quality",
      args |-> <<[resolution |-> r, contrast |-> c, sharpness |-> sh,
                  text_density |-> td, noise_level |-> nl], raises>>] :
        r \in Resolutions, c \in Contrasts, sh \in Sharpnesses,
        td \in TextDensities, nl \in NoiseLevels, raises \in BOOLEAN}

InitQuality ==
    /\ NoConversion
    /\ enable_caching = TRUE
    /\ cache_files = EmptyCache
    /\ saved_texts = << >>
    /\ call \in QualityCalls
    /\ ret = <<>>

\* quality_data = self.quality_assessor.assess_image_quality(pil_image)
AssessImageQuality ==
    /\ call.fn = "assess_image_quality"
    /\ ret = <<>>
    /\ ret' = <<assess_image_quality(call.args[1], call.args[2])>>
    /\ UNCHANGED <<noConversionVars, enable_caching, cache_files, saved_texts, call>>

NextQuality == AssessImageQuality

SpecQuality == InitQuality /\ [][NextQuality]_vars

(* ------------------------------------- ModelPerformanceTracker called alone *)
NumCandidates == 3   \* models the tracker is asked about
MaxRecorded == 3     \* record_success / record_failure calls in one history

TrackerModels == SubSeq(fallback_vision_models, 1, NumCandidates)
TrackerModelSet == {TrackerModels[i] : i \in 1..NumCandidates}

\* the candidate lists handed to get_model_rankings
CandidateLists == UNION {[1..k -> TrackerModelSet] : k \in 1..NumCandidates}

\* response_time = time.time() - start_time, in seconds; 0 when the clock
\* did not advance between the two readings
TrackerTimes == {0, 2}

TotalRecorded(pd) ==
    LET RECURSIVE Sum(_)
        Sum(ms) == IF ms = <<>> THEN 0
                   ELSE pd[Head(ms)].success_count + pd[Head(ms)].failure_count
                        + Sum(Tail(ms))
    IN Sum(TrackerModels)

trackerFixedVars ==
    <<config, enable_caching, doc, pc, pdf_type, optimized_images, page_num,
      all_text, processing_methods, result, cache_files, stage, tasks, all_texts,
      timed_out, tess_log, key_was_cached, requests_sent, record_calls, saved_texts>>

\* a tracker that found no performance file
InitTracker ==
    /\ config = BaseConfig
    /\ enable_caching = FALSE
    /\ doc = <<>>
    /\ pc = "idle"
    /\ pdf_type = ""
    /\ optimized_images = <<>>
    /\ page_num = 0
    /\ all_text = <<>>
    /\ processing_methods = <<>>
    /\ result = <<>>
    /\ cache_files = EmptyCache
    /\ stage = "top"
    /\ tasks = <<>>
    /\ all_texts = <<>>
    /\ timed_out = FALSE
    /\ tess_log = <<>>
    /\ key_was_cached = FALSE
    /\ requests_sent = [m \in ModelSet |-> 0]
    /\ record_calls = [m \in ModelSet |-> [success |-> 0, failure |-> 0]]
    /\ saved_texts = << >>
    /\ performance_data = [m \in TrackerModelSet |-> NewRecord]
    /\ call = [fn |-> "__init__", args |-> <<>>]
    /\ ret = <<>>

\* record_success(model, response_time), for an attempt that took response_time
RecordSuccess(model, response_time) ==
    /\ TotalRecorded(performance_data) < MaxRecorded
    /\ performance_data' = [performance_data EXCEPT ![model] =
          StoreSuccess(@, @.success_count, response_time)]
    /\ call' = [fn |-> "record_success", args |-> <<model, response_time>>,
                elapsed |-> response_time]
    /\ ret' = <<>>
    /\ UNCHANGED trackerFixedVars

\* record_failure(model), for an attempt that took `elapsed` seconds
RecordFailure(model, elapsed) ==
    /\ TotalRecorded(performance_data) < MaxRecorded
    /\ performance_data' = [performance_data EXCEPT ![model] =
          StoreFailure(@, @.failure_count)]
    /\ call' = [fn |-> "record_failure", args |-> <<model>>, elapsed |-> elapsed]
    /\ ret' = <<>>
    /\ UNCHANGED trackerFixedVars

GetModelRankings(models) ==
    /\ call' = [fn |-> "get_model_rankings", args |-> <<models>>]
    /\ ret' = <<get_model_rankings(performance_data, models)>>
    /\ UNCHANGED <<trackerFixedVars, performance_data>>

GetSmartModelSelection(smart) ==
    /\ call' = [fn |-> "_get_smart_model_selection", args |-> <<smart>>]
    /\ ret' = <<_get_smart_model_selection(smart, performance_data)>>
    /\ UNCHANGED <<trackerFixedVars, performance_data>>

NextTracker ==
    \/ \E model \in TrackerModelSet, response_time \in TrackerTimes :
          RecordSuccess(model, response_time)
    \/ \E model \in TrackerModelSet, elapsed \in TrackerTimes :
          RecordFailure(model, elapsed)
    \/ \E models \in CandidateLists : GetModelRankings(models)
    \/ \E smart \in BOOLEAN : GetSmartModelSelection(smart)

SpecTracker == InitTracker /\ [][NextTracker]_vars

(* --------------------------- optimization and segmentation, called alone *)
MaxSize == 3        \* max_image_size and segment_size in the calls
MaxPageDim == 8     \* width and height of the rendered page in the calls

\* (max_image_size, segment_size): small ones, and the constructor's defaults
SizePairs == ((1..MaxSize) \X (1..MaxSize)) \cup {<<800, DefaultSegmentSize>>}

\* the pixmaps of the pages: small ones, a Letter page, a long strip
PageSizes == ((1..MaxPageDim) \X (1..MaxPageDim)) \cup {<<612, 792>>, <<14400, 3>>}

optimizeFixedVars ==
    <<enable_caching, doc, pc, pdf_type, optimized_images, page_num, all_text,
      processing_methods, result, cache_files, performance_data, stage, tasks,
      all_texts, timed_out, tess_log, key_was_cached, requests_sent, record_calls,
      saved_texts>>

InitOptimize ==
    /\ \E sizes \in SizePairs :
          config = [BaseConfig EXCEPT !.max_image_size = sizes[1],
                                      !.segment_size = sizes[2]]
    /\ \E size \in PageSizes :
          call = [fn |-> "_optimize_image_advanced",
                  args |-> <<[width |-> size[1], height |-> size[2]]>>]
    /\ ret = <<>>
    /\ enable_caching = FALSE
    /\ doc = <<>>
    /\ pc = "idle"
    /\ pdf_type = ""
    /\ optimized_images = <<>>
    /\ page_num = 0
    /\ all_text = <<>>
    /\ processing_methods = <<>>
    /\ result = <<>>
    /\ cache_files = EmptyCache
    /\ performance_data = FreshHistory
    /\ stage = "top"
    /\ tasks = <<>>
    /\ all_texts = <<>>
    /\ timed_out = FALSE
    /\ tess_log = <<>>
    /\ key_was_cached = FALSE
    /\ requests_sent = [m \in ModelSet |-> 0]
    /\ record_calls = [m \in ModelSet |-> [success |-> 0, failure |-> 0]]
    /\ saved_texts = << >>

\* optimized_image = self._optimize_image_advanced(pil_image, quality_data)
OptimizeImageAdvanced ==
    /\ call.fn = "_optimize_image_advanced"
    /\ ret = <<>>
    /\ ret' = <<_optimize_image_advanced(call.args[1], config.max_image_size)>>
    /\ UNCHANGED <<optimizeFixedVars, config, call>>

\* _process_image_with_advanced_vision_ocr on the optimized image: which way
\* it goes, and how many requests' worth of images it is cut into
ProcessImageWithAdvancedVisionOcr ==
    /\ call.fn = "_optimize_image_advanced"
    /\ ret # <<>>
    /\ call' = [fn |-> "_process_image_with_advanced_vision_ocr", args |-> <<ret[1]>>]
    /\ ret' = <<[mode |-> VisionMode(ret[1]), images |-> Len(VisionTasks(ret[1]))]>>
    /\ UNCHANGED <<optimizeFixedVars, config>>

NextOptimize == OptimizeImageAdvanced \/ ProcessImageWithAdvancedVisionOcr

SpecOptimize == InitOptimize /\ [][NextOptimize]_vars

(* ------------------------------- the two segment-processing paths, alone *)
\* what _process_single_segment_advanced returns for the segments 0..n-1 of
\* one image cut into more than one segment
SegmentResults ==
    UNION {{t \in [1..n -> UNION {SegmentTexts(i) : i \in 0..(n - 1)}] :
               \A i \in 1..n : t[i] \in SegmentTexts(i - 1)} : n \in 2..MaxSegments}

InitPaths ==
    /\ NoConversion
    /\ enable_caching = TRUE
    /\ cache_files = EmptyCache
    /\ saved_texts = << >>
    /\ \E texts \in SegmentResults :
          call = [fn |-> "_process_image_with_segmentation_advanced", args |-> <<texts>>]
    /\ ret = <<>>

PathTaken(path) == \E k \in 1..Len(ret) : ret[k].path = path

\* _process_segments_sequential_advanced: the segments in list order
ProcessSegmentsSequential ==
    /\ call.fn = "_process_image_with_segmentation_advanced"
    /\ ~PathTaken("sequential")
    /\ LET texts == call.args[1]
       IN ret' = Append(ret,
             [path |-> "sequential",
              text |-> _combine_segment_texts([i \in 1..Len(texts) |-> <<i - 1, texts[i]>>]),
              method |-> <<"Advanced Vision OCR (Sequential, segments)", Digit(Len(texts))>>])
    /\ UNCHANGED <<noConversionVars, enable_caching, cache_files, saved_texts, call>>

\* _process_segments_parallel_advanced: the futures complete in the order
\* `order`; `completed` of them are done when as_completed's timeout expires
\* (all of them: it does not expire)
ProcessSegmentsParallel(order, completed) ==
    /\ call.fn = "_process_image_with_segmentation_advanced"
    /\ ~PathTaken("parallel")
    /\ LET texts == call.args[1]
           collected == [k \in 1..completed |-> <<order[k], texts[order[k] + 1]>>]
       IN ret' = Append(ret,
             IF completed < Len(texts)
             THEN [path |-> "parallel", text |-> <<>>, method |-> <<"Error">>]
             ELSE [path |-> "parallel",
                   text |-> _combine_segment_texts(collected),
                   method |-> <<"Advanced Vision OCR (Parallel, segments)",
                                Digit(Len(texts))>>])
    /\ UNCHANGED <<noConversionVars, enable_caching, cache_files, saved_texts, call>>

NextPaths ==
    \/ ProcessSegmentsSequential
    \/ \E order \in CompletionOrders(Len(call.args[1])) :
          \E completed \in 0..Len(call.args[1]) :
             ProcessSegmentsParallel(order, completed)

SpecPaths == InitPaths /\ [][NextPaths]_vars

(* ================================================================ claims *)
\* the page (1-based) that tasks, all_texts, tess_log and key_was_cached are about
LoggedPage == IF stage = "top" THEN page_num ELSE page_num + 1

\* the text of page p (1-based) in all_text, once appended
PageText(p) == all_text[2 * p - 1]

\* the text a model gives for a segment when it answers with text
ModelText(model, page, seg) == <<ModelTag(model), "p", Digit(page), "s", Digit(seg)>>

\* the request of a log entry was answered with status 200 and text
GaveText(entry, page, seg) ==
    /\ entry.resp.kind = "http"
    /\ entry.resp.status = 200
    /\ entry.resp.body = TextBody(entry.model, page, seg)

\* the last finished page went through the vision step on the whole image
LastPageWasSingle ==
    /\ stage = "top"
    /\ page_num >= 1
    /\ Len(tasks) = 1
    /\ VisionMode(optimized_images[page_num]) = "single"

\* C1: in a fallback chain over the ranked models, requests go out in ranked
\* order, nothing is requested after the first model that answers with
\* non-empty text, and that model's text is the result of the chain (and, for
\* a whole-page image, the text of the page).
C1_FallbackChain ==
    \A i \in 1..Len(tasks) :
        LET t == tasks[i]
            n == Len(t.log)
        IN /\ \A j \in 1..n : t.log[j].model = t.models_to_try[j]
           /\ \A j \in 1..(n - 1) : ~GaveText(t.log[j], LoggedPage, i - 1)
           /\ (n >= 1 /\ GaveText(t.log[n], LoggedPage, i - 1) /\ t.st = "done")
                 => /\ t.result = ModelText(t.log[n].model, LoggedPage, i - 1)
                    /\ LastPageWasSingle
                          => PageText(page_num) = ModelText(t.log[n].model, page_num, 0)

\* a chain whose first model failed and whose second model answered with
\* text, on a whole page whose text has been appended
C1_Witness ==
    /\ LastPageWasSingle
    /\ Len(tasks[1].log) = 2
    /\ ~GaveText(tasks[1].log[1], page_num, 0)
    /\ GaveText(tasks[1].log[2], page_num, 0)

\* every request of the logged page's vision step went without text
AllAttemptsFailed ==
    /\ tasks # <<>>
    /\ \A i \in 1..Len(tasks) :
          /\ tasks[i].st = "done"
          /\ Len(tasks[i].log) = Len(tasks[i].models_to_try)
          /\ \A j \in 1..Len(tasks[i].log) : ~GaveText(tasks[i].log[j], LoggedPage, i - 1)

\* C2: once the page loop of an image-based document runs, no step raises,
\* no step changes the text of an earlier page, a page on which every model
\* failed (and local OCR was not accepted) contributes the empty string, and
\* the result returned is the concatenation of everything appended.
C2_FailedPageDoesNotAbort ==
    [][ /\ pc = "pages" => pc' \in {"pages", "done"}
        /\ pc = "pages" => SubSeq(all_text', 1, Len(all_text)) = all_text
        /\ (pc = "pages" /\ page_num' = page_num + 1 /\ AllAttemptsFailed')
              => all_text'[2 * page_num' - 1] = <<>>
        /\ (pc = "pages" /\ pc' = "done")
              => /\ result' # <<>>
                 /\ result'[1].markdown = Concat(all_text)
                 /\ Len(all_text) = 2 * Len(doc) - 1
      ]_vars

\* the document is converted, its last page failed on every model and the
\* first page has text
C2_Witness ==
    /\ pc = "done"
    /\ pdf_type = "image-based"
    /\ AllAttemptsFailed
    /\ PageText(Len(doc)) = <<>>
    /\ PageText(1) # <<>>
    /\ result # <<>>

\* text can only be the text of page p (1-based): what local OCR reads on the
\* page, what the cache held for its image, or model texts that name the page
IsTextOfPage(text, p) ==
    \/ text = <<>>
    \/ text = Strip(doc[p].tess)
    \/ /\ _get_cache_key(optimized_images[p]) \in DOMAIN cache_files
       /\ text = ReadText(cache_files[_get_cache_key(optimized_images[p])])
    \/ /\ \E k \in 1..Len(text) : text[k] = "p"
       /\ \A k \in 1..Len(text) : text[k] = "p" => (k < Len(text) /\ text[k + 1] = Digit(p))

\* C3: the markdown of an image-based document is page 1's text, the marker
\* of page 2, page 2's text, ... in source order.
C3_PageOrder ==
    (pc = "done" /\ pdf_type = "image-based")
    => /\ result # <<>>
       /\ result[1].markdown =
             Concat([k \in 1..(2 * Len(doc) - 1) |->
                        IF k % 2 = 1 THEN PageText((k + 1) \div 2)
                        ELSE PageSeparator(k \div 2 + 1)])
       /\ \A p \in 1..Len(doc) : IsTextOfPage(PageText(p), p)

\* a converted document whose two first pages have different, non-empty
\* texts, the second from segments processed in parallel
C3_Witness ==
    /\ pc = "done"
    /\ pdf_type = "image-based"
    /\ PageText(1) # <<>>
    /\ PageText(2) # <<>>
    /\ PageText(1) # PageText(2)
    /\ VisionMode(optimized_images[2]) = "parallel"
    /\ Len(all_texts) = 2 /\ all_texts[1][1] > all_texts[2][1]

\* the text collected for segment idx
TextOfSegment(segment_texts, idx) ==
    (CHOOSE pair \in {segment_texts[k] : k \in 1..Len(segment_texts)} : pair[1] = idx)[2]

NotBlank(text) == \E k \in 1..Len(text) : ~IsSpace(text[k])

\* the non-blank texts, stripped, by ascending segment index, a blank line
\* between two of them
RECURSIVE BlankLineJoined(_)
BlankLineJoined(texts) ==
    IF texts = <<>> THEN <<>>
    ELSE IF Len(texts) = 1 THEN Strip(texts[1])
    ELSE Strip(texts[1]) \o <<"LF", "LF">> \o BlankLineJoined(Tail(texts))

\* C4: whatever the order in which the (index, text) results were collected,
\* the combined text is the non-blank texts in ascending segment index,
\* joined by a blank line.
C4_CombineByIndex ==
    (call.fn = "_combine_segment_texts" /\ ret # <<>>)
    => ret[1] = BlankLineJoined(SelectSeq(
                   [i \in 1..Len(call.args) |-> TextOfSegment(call.args, i - 1)], NotBlank))

\* texts A, empty, C, D collected in the order 3, 1, 0, 2 combine to A, C, D
C4_Witness ==
    /\ call.fn = "_combine_segment_texts"
    /\ call.args = << <<3, <<"D">> >>, <<1, <<>> >>, <<0, <<"A">> >>, <<2, <<"C">> >> >>
    /\ ret = << <<"A", "LF", "LF", "C", "LF", "LF", "D">> >>

NoRecordInProgress == \A i \in 1..Len(tasks) : tasks[i].st \notin {"load", "store"}

\* C6: with smart model selection, every request sent to a model is counted
\* once in the tracker: success_count + failure_count = requests sent.
C6_EveryAttemptRecorded ==
    (config.enable_smart_model_selection /\ NoRecordInProgress)
    => \A m \in ModelSet :
          performance_data[m].success_count + performance_data[m].failure_count
             = requests_sent[m]

\* C7: no tracker update is lost: the counts are the numbers of completed
\* record_success and record_failure calls.
C7_NoLostUpdate ==
    \A m \in ModelSet :
        /\ performance_data[m].success_count = record_calls[m].success
        /\ performance_data[m].failure_count = record_calls[m].failure

\* the vision step of the last finished page returned no text
VisionGaveNoText ==
    /\ stage = "top"
    /\ page_num >= 1
    /\ tasks # <<>>
    /\ timed_out \/ \A i \in 1..Len(tasks) : tasks[i].result = <<>>

\* C8: when the vision step gives no text and the fallback is enabled, local
\* OCR runs after the vision step and its text, if any, is the page text.
C8_LocalOcrAfterVision ==
    (VisionGaveNoText /\ config.fallback_to_tesseract)
    => /\ \E k \in 1..Len(tess_log) : tess_log[k]
       /\ Strip(doc[page_num].tess) # <<>> => PageText(page_num) = Strip(doc[page_num].tess)

C10_CacheRoundTrip ==
    (call.fn = "_get_cached_result" /\ call.args[1] \in DOMAIN saved_texts)
    => ret = << <<saved_texts[call.args[1]]>> >>

\* C11: the result of an image-based document carries metadata with one
\* processing-method entry per page, in page order.
C11_MetadataPerPage ==
    (pc = "done" /\ pdf_type = "image-based")
    => /\ result # <<>>
       /\ result[1].metadata # <<>>
       /\ result[1].metadata[1].processing_methods = metadata.processing_methods
       /\ Len(result[1].metadata[1].processing_methods) = Len(doc)

\* the methods that say a page failed
FailureMarkers == { <<"Advanced Vision OCR failed">>, <<"Error">> }

\* C12: a finished page is recorded with a failure marker exactly when its
\* text is empty.
C12_FailedIffEmpty ==
    \A p \in 1..Len(processing_methods) :
        (processing_methods[p] \in FailureMarkers) <=> (PageText(p) = <<>>)

\* C13: when rendering a page fails, convert raises without a result and takes
\* no further step; the page loop (cache, local OCR, vision) only ever runs
\* with an image of every page, so nothing is processed after a failure.
C13_RasterizationFatal ==
    [][ /\ pc # "raised"
        /\ (pdf_type' = "image-based" /\ pc' \in {"pages", "done"})
              => Len(optimized_images') = Len(doc)
        /\ (pdf_type' = "image-based" /\ pc' = "raised")
              => /\ result' = <<>>
                 /\ all_text' = <<>> /\ processing_methods' = <<>>
                 /\ tess_log' = <<>> /\ tasks' = <<>>
                 /\ requests_sent' = requests_sent
                 /\ cache_files' = cache_files
      ]_vars

\* convert raised on a scanned document whose first page local OCR can read
C13_Witness ==
    /\ pc = "raised"
    /\ pdf_type = "image-based"
    /\ doc[1] = ScanLong
    /\ result = <<>>

\* C19: a result of an image-based document exists only when every page has
\* been appended and no fallback chain of a page is unfinished.
C19_ResultAfterAllPages ==
    (result # <<>> /\ pdf_type = "image-based")
    => /\ page_num = Len(doc)
       /\ Len(processing_methods) = Len(doc)
       /\ Len(all_text) = 2 * Len(doc) - 1
       /\ stage = "top"
       /\ \A i \in 1..Len(tasks) : tasks[i].st = "done"

\* a result whose last page was cut short by the as_completed timeout
C19_Witness ==
    /\ result # <<>>
    /\ pdf_type = "image-based"
    /\ Len(tasks) > 1
    /\ timed_out
    /\ \E i \in 1..Len(tasks) : ~tasks[i].collected

\* the last finished page did not take its text from the cache
LastPageMissed ==
    /\ stage = "top"
    /\ page_num >= 1
    /\ ~(enable_caching /\ key_was_cached)

\* C20: on a cache miss the local OCR text is the page text exactly when
\* local OCR is enabled and the stripped text is longer than 50 characters;
\* then no request is sent for the page, and otherwise the vision step runs.
C20_LocalOcrAcceptance ==
    LastPageMissed
    => LET local_text == Strip(optimized_images[page_num].tess)
           accepted == config.fallback_to_tesseract /\ Len(local_text) > 50
       IN /\ accepted
               => /\ processing_methods[page_num] = <<"Traditional OCR (Tesseract)">>
                  /\ PageText(page_num) = local_text
                  /\ tasks = <<>>
          /\ ~accepted
               => /\ processing_methods[page_num] # <<"Traditional OCR (Tesseract)">>
                  /\ tasks # <<>>
                  /\ \A i \in 1..Len(tasks) : Len(tasks[i].log) >= 1

\* a page with 51 characters of local OCR text was accepted, then a page
\* with exactly 50 went to the vision step
C20_Witness ==
    /\ LastPageMissed
    /\ page_num = 2
    /\ doc[1] = ScanLong /\ doc[2] = ScanEdge
    /\ config.fallback_to_tesseract
    /\ processing_methods[1] = <<"Traditional OCR (Tesseract)">>
    /\ tasks # <<>>

\* the area of the boxes
RECURSIVE TotalArea(_)
TotalArea(boxes) ==
    IF boxes = <<>> THEN 0
    ELSE (Head(boxes).right - Head(boxes).left) * (Head(boxes).bottom - Head(boxes).top)
         + TotalArea(Tail(boxes))

\* C14: _create_image_segments returns rows*cols boxes in row-major order,
\* none empty, all inside the image, pairwise disjoint and covering the whole
\* image; 2000x1600 with segment_size 800 gives 4 boxes of 1000x800.
C14_SegmentsTile ==
    (call.fn = "_create_image_segments" /\ ret # <<>>)
    => LET width == call.args[1]
           height == call.args[2]
           segment_size == call.args[3]
           boxes == ret[1]
           cols == IF width \div segment_size > 1 THEN width \div segment_size ELSE 1
           rows == IF height \div segment_size > 1 THEN height \div segment_size ELSE 1
       IN /\ Len(boxes) = rows * cols
          /\ \A k \in 1..Len(boxes) :
                /\ 0 <= boxes[k].left /\ boxes[k].left < boxes[k].right
                /\ boxes[k].right <= width
                /\ 0 <= boxes[k].top /\ boxes[k].top < boxes[k].bottom
                /\ boxes[k].bottom <= height
                \* list position = row * cols + col
                /\ boxes[k].top = boxes[((k - 1) \div cols) * cols + 1].top
                /\ boxes[k].left = boxes[((k - 1) % cols) + 1].left
          /\ \A a, b \in 1..Len(boxes) :
                a < b => /\ \/ boxes[a].right <= boxes[b].left
                            \/ boxes[b].right <= boxes[a].left
                            \/ boxes[a].bottom <= boxes[b].top
                            \/ boxes[b].bottom <= boxes[a].top
                         /\ \/ boxes[a].top < boxes[b].top
                            \/ boxes[a].top = boxes[b].top /\ boxes[a].left < boxes[b].left
          /\ TotalArea(boxes) = width * height
          /\ (width = 2000 /\ height = 1600 /\ segment_size = 800)
                => /\ Len(boxes) = 4
                   /\ \A k \in 1..4 : /\ boxes[k].right - boxes[k].left = 1000
                                      /\ boxes[k].bottom - boxes[k].top = 800

\* a 5x3 image cut with segment_size 2: two columns of widths 2 and 3, one row
C14_Witness ==
    /\ call.fn = "_create_image_segments"
    /\ call.args = <<5, 3, 2>>
    /\ ret = << << [left |-> 0, top |-> 0, right |-> 2, bottom |-> 3],
                   [left |-> 2, top |-> 0, right |-> 5, bottom |-> 3] >> >>

\* C15: analyze_pdf_type returns text-based exactly when the parser worked
\* and the texts of the first min(3, pages) pages, concatenated and stripped,
\* have more than 100 characters; otherwise image-based.
C15_Classification ==
    (call.fn = "analyze_pdf_type" /\ ret # <<>>)
    => LET document == call.args[1]
           n == IF Len(document) < 3 THEN Len(document) ELSE 3
           text == Strip(Concat([i \in 1..n |-> document[i].native]))
       IN ret[1] = IF call.args[2] = "ok" /\ Len(text) > 100
                   THEN "text-based" ELSE "image-based"

\* a document whose first three pages hold exactly 100 characters and whose
\* fourth page holds 101 is image-based
C15_Witness ==
    /\ call.fn = "analyze_pdf_type"
    /\ call.args[2] = "ok"
    /\ Len(call.args[1]) = 4
    /\ Len(Strip(Concat([i \in 1..3 |-> call.args[1][i].native]))) = 100
    /\ Len(call.args[1][4].native) = 101
    /\ ret = <<"image-based">>

\* C16: with quality assessment enabled the timeout is 180 s for a score
\* below 30, 120 s from 30 to below 70, and 90 s from 70 on.
C16_AdaptiveTimeout ==
    (call.fn = "_get_adaptive_timeout" /\ ret # <<>> /\ call.args[1]
        /\ "quality_score" \in DOMAIN call.args[2])
    => LET millionths == call.args[2].quality_score
       IN /\ millionths < 30000000 => ret = <<180>>
          /\ (30000000 <= millionths /\ millionths < 70000000) => ret = <<120>>
          /\ millionths >= 70000000 => ret = <<90>>

\* the boundary score 30 gets 120 s
C16_Witness ==
    /\ call.fn = "_get_adaptive_timeout"
    /\ call.args = <<TRUE, [quality_score |-> 30000000]>>
    /\ ret = <<120>>

\* C17: the quality score lies within [0, 100], and is the neutral 50 when
\* the assessment failed.
C17_QualityScoreRange ==
    (call.fn = "assess_image_quality" /\ ret # <<>>)
    => /\ 0 <= ret[1].quality_score
       /\ ret[1].quality_score <= 100 * 1000000
       /\ call.args[2] => ret[1].quality_score = 50 * 1000000

\* every contribution above its cap and no noise: the score is 100
C17_Witness ==
    /\ call.fn = "assess_image_quality"
    /\ ~call.args[2]
    /\ call.args[1].resolution > 30 * 1000000
    /\ call.args[1].contrast > 1000
    /\ call.args[1].sharpness > 2500
    /\ call.args[1].text_density > 15
    /\ call.args[1].noise_level = 0
    /\ ret = <<[quality_score |-> 100 * 1000000]>>

\* C18: a call whose cache I/O failed leaves caching disabled, and once
\* caching is disabled it stays so: no later call reads or writes the cache.
C18_CacheFailureDisablesCaching ==
    [][ /\ (call'.fn # "__init__" /\ call'.io = "error") => ~enable_caching'
        /\ ~enable_caching
              => /\ ~enable_caching'
                 /\ cache_files' = cache_files
                 /\ call'.fn = "_get_cached_result" => ret' = << <<>> >>
      ]_vars

ResultsByIndex == [i \in 1..Len(tasks) |-> tasks[i].result]

\* the chain of segment i (1-based) ended with its first model text, or with
\* the empty result when no model gave text
OneResultPerSegment(i) ==
    LET t == tasks[i]
        n == Len(t.log)
    IN /\ t.st = "done"
       /\ t.result = IF n >= 1 /\ GaveText(t.log[n], page_num + 1, i - 1)
                     THEN ModelText(t.log[n].model, page_num + 1, i - 1)
                     ELSE <<>>

\* C22: when a page processed in parallel segments ends, every segment task
\* has finished, and the page text is the combination of exactly one result
\* per segment; no slow or timed-out attempt makes the results of the other
\* segments disappear.
C22_FanInBarrier ==
    [][ (pc = "pages" /\ stage = "parallel" /\ stage' = "top")
        => /\ \A i \in 1..Len(tasks) : OneResultPerSegment(i)
           /\ all_text'[2 * page_num' - 1] =
                 BlankLineJoined(SelectSeq(ResultsByIndex, NotBlank))
      ]_vars

\* the response has a line that json.loads cannot decode
CannotBeDecoded(resp) ==
    \E k \in 1..Len(resp.body) : resp.body[k].json # "object"

\* the text extracted from the response is empty or whitespace-only
ExtractedTextBlank(resp) == ~NotBlank(Concat(content_parts(resp.body)))

\* the conditions under which an attempt is to count as failed
FailureCondition(resp) ==
    \/ resp.kind = "exception"
    \/ resp.status \notin 200..299
    \/ CannotBeDecoded(resp)
    \/ ExtractedTextBlank(resp)

\* C23: an attempt whose status is not 2xx, whose response cannot be decoded
\* or whose extracted text is blank is a failure: its text is not used, and
\* the chain goes on to the next model (it ends only after the last one).
C23_AttemptFailureConditions ==
    \A i \in 1..Len(tasks) :
        LET t == tasks[i]
            n == Len(t.log)
        IN (n >= 1 /\ FailureCondition(t.log[n].resp))
           => /\ t.result = <<>>
              /\ ~(t.st \in {"load", "store"} /\ t.rec = "success")
              /\ t.st = "done" => n = Len(t.models_to_try)

\* the score of C24 as a fraction: 0 for a model never attempted, otherwise
\* success_rate * (60 / max(avg_response_time, 1))
StatedScore(pd, model) ==
    LET data == pd[model]
        total_attempts == data.success_count + data.failure_count
        t == IF data.avg_num < data.avg_den THEN <<1, 1>>
             ELSE <<data.avg_num, data.avg_den>>
    IN IF total_attempts = 0 THEN <<0, 1>>
       ELSE <<data.success_count * 60 * t[2], total_attempts * t[1]>>

\* C24: get_model_rankings returns the candidates by descending score, the
\* score being 0 for a model never attempted and success_rate * (60 /
\* max(avg_response_time, 1)) otherwise, whatever the recorded history.
C24_RankingScore ==
    (call.fn = "get_model_rankings" /\ ret # <<>>)
    => \A k \in 1..(Len(ret[1]) - 1) :
          ~ScoreGreater(StatedScore(performance_data, ret[1][k + 1]),
                        StatedScore(performance_data, ret[1][k]))

\* C25: every recorded attempt on a model, successful or failed, sets
\* avg_response_time to (old_avg * (n - 1) + latest_time) / n, n being the
\* model's attempts counting this one, so that avg_response_time stays the
\* running average over the n attempts.
C25_AverageLatencyUpdate ==
    [][ (call'.fn \in {"record_success", "record_failure"}
         /\ performance_data' # performance_data)
        => LET old == performance_data[call'.args[1]]
               new == performance_data'[call'.args[1]]
               n == new.success_count + new.failure_count
           IN new.avg_num * (old.avg_den * n) =
                 (old.avg_num * (n - 1) + call'.elapsed * old.avg_den) * new.avg_den
      ]_vars

\* the multiset of the models of a list, as a function model -> occurrences
Occurrences(models) ==
    [m \in TrackerModelSet |-> Cardinality({k \in 1..Len(models) : models[k] = m})]

SameScore(pd, a, b) ==
    /\ ~ScoreGreater(score_model(pd, a), score_model(pd, b))
    /\ ~ScoreGreater(score_model(pd, b), score_model(pd, a))

\* xs[a] with a < b and an equal score comes out before xs[b]: the k-th
\* occurrence of a score class in the ranking is its k-th occurrence in xs
ClassOf(pd, xs, m) == SelectSeq(xs, LAMBDA x : SameScore(pd, x, m))

NoHistory(pd) ==
    \A m \in DOMAIN pd : pd[m].success_count + pd[m].failure_count = 0

\* C27: get_model_rankings returns a permutation of the candidate list in
\* which models of equal score keep the order they had in the list; with no
\* recorded history, or with smart selection disabled, the order tried is the
\* configured fallback order.
C27_StablePermutation ==
    /\ (call.fn = "get_model_rankings" /\ ret # <<>>)
       => /\ Len(ret[1]) = Len(call.args[1])
          /\ Occurrences(ret[1]) = Occurrences(call.args[1])
          /\ \A m \in TrackerModelSet :
                ClassOf(performance_data, ret[1], m)
                   = ClassOf(performance_data, call.args[1], m)
          /\ NoHistory(performance_data) => ret[1] = call.args[1]
    /\ (call.fn = "_get_smart_model_selection" /\ ret # <<>>
        /\ (~call.args[1] \/ NoHistory(performance_data)))
       => ret[1] = Models

\* two candidates with the same positive score, listed behind a candidate
\* that scores less, come out in front of it in their listed order
C27_Witness ==
    /\ call.fn = "get_model_rankings"
    /\ Len(call.args[1]) = 3
    /\ ret # <<>>
    /\ SameScore(performance_data, call.args[1][2], call.args[1][3])
    /\ call.args[1][2] # call.args[1][3]
    /\ ScoreGreater(score_model(performance_data, call.args[1][2]),
                    score_model(performance_data, call.args[1][1]))
    /\ ret[1] = <<call.args[1][2], call.args[1][3], call.args[1][1]>>

ChainRunning(i) ==
    pc = "pages" /\ i <= Len(tasks) /\ tasks[i].st \in {"post", "load", "store"}

\* the chain of segment i has returned, with a model's text or with ""
ChainEnded(i) ==
    /\ i <= Len(tasks)
    /\ tasks[i].st = "done"
    /\ \/ tasks[i].result = <<>>
       \/ /\ tasks[i].log # <<>>
          /\ GaveText(tasks[i].log[Len(tasks[i].log)], LoggedPage, i - 1)

\* C28: the order of a chain is the ranking at the moment the chain begins
\* and stays what it was while the tracker is updated; no model of the chain
\* gets a second request, so the requests of a chain are at most as many as
\* the configured models; and every chain that began ends, with text or with
\* the empty result.
C28_BoundedFallbackChain ==
    /\ [][ \A i \in 1..Len(tasks) :
              /\ (tasks[i].st = "queued" /\ Len(tasks') = Len(tasks)
                  /\ tasks'[i].st # "queued")
                 => /\ tasks'[i].models_to_try =
                          _get_smart_model_selection(config.enable_smart_model_selection,
                                                     performance_data)
                    /\ tasks'[i].log = <<>>
              /\ (tasks[i].st # "queued" /\ Len(tasks') = Len(tasks)
                  /\ tasks'[i].st # "queued")
                 => tasks'[i].models_to_try = tasks[i].models_to_try
         ]_vars
    /\ [](\A i \in 1..Len(tasks) :
             /\ Len(tasks[i].log) <= Len(Models)
             /\ \A a, b \in 1..Len(tasks[i].log) :
                   a # b => tasks[i].log[a].model # tasks[i].log[b].model)
    /\ \A i \in 1..MaxCols : ChainRunning(i) ~> ChainEnded(i)

\* a chain is about to ask its second model while the tracker, updated
\* since the chain began, now ranks the models the other way round
C28_Witness ==
    \E i \in 1..Len(tasks) :
        /\ config.enable_smart_model_selection
        /\ tasks[i].st = "post"
        /\ tasks[i].idx = 2
        /\ Len(tasks[i].log) = 1
        /\ tasks[i].models_to_try # get_model_rankings(performance_data, Models)

\* C29: the vision step segments an image exactly when its largest dimension
\* exceeds segment_size; the optimized image's largest dimension is at most
\* max_image_size; so with max_image_size <= segment_size the vision step
\* takes the whole page image.
C29_SegmentationNeedsLargerImage ==
    (call.fn = "_process_image_with_advanced_vision_ocr" /\ ret # <<>>)
    => LET image == call.args[1]
           largest == IF image.width > image.height THEN image.width ELSE image.height
       IN /\ (ret[1].mode # "single") <=> (largest > config.segment_size)
          /\ largest <= config.max_image_size
          /\ config.max_image_size <= config.segment_size => ret[1].mode = "single"

\* C30: for the same segments and the same text per segment, the parallel
\* path, whatever the order in which its futures complete, and the
\* sequential path return the same combined page text.
C30_ParallelEqualsSequential ==
    \A a, b \in 1..Len(ret) :
        (call.fn = "_process_image_with_segmentation_advanced"
         /\ ret[a].path = "parallel" /\ ret[b].path = "sequential")
        => ret[a].text = ret[b].text

====
